---- MODULE Spec2Model ----
(***************************************************************************)
(* capto: a directory is scanned (fileCollector.ts), its ignore rules are  *)
(* compiled once (IgnoreRulesManager), the flat file list and the tree     *)
(* lines are produced by two separate walks (FileCollector), and the       *)
(* per-file sections are assembled (htmlToPdf.ts, fileContentReader.ts).   *)
(* Spec is the run over every small directory tree; SpecText is the same   *)
(* run over one text file, for every text of TextInputs; SpecPdf is the    *)
(* run to the end of generatePDF, over the directories where nothing fails.*)
(*                                                                         *)
(* A file name is the pair <<stem, ext>> (path.extname splits it), a path  *)
(* is the sequence of names below the scanned root, and a tree line is a   *)
(* record of its prefix segments, its connector and its name.  The box     *)
(* drawing characters of the source are written in ASCII:                  *)
(*   "|-- " tee connector, "+-- " terminal connector,                      *)
(*   "|   " continuing prefix segment, "    " blank prefix segment.        *)
(***************************************************************************)
EXTENDS Integers, Sequences, FiniteSets, TLC

\* ------------------------------------------------------------------ bounds
MaxExtra == 1     \* at most this many extra ignore patterns (-i)
MaxFaults == 2    \* at most this many entries fail on stat/list/probe/read
MaxReadFaults == 1  \* at most this many files fail when they are read back
MaxOver == 2      \* a text has at most this many lines more than are shown

\* ------------------------------------------------------------------- names
N_git == <<".git", "">>
N_HEAD == <<"HEAD", "">>
N_gitignore == <<".gitignore", "">>
N_a == <<"a", "txt">>
N_b == <<"b", "log">>
N_sub == <<"sub", "">>
N_c == <<"c", "log">>
N_in == <<"in", "">>
N_e == <<"e", "png">>

\* The scanned root, and the root's own name (path.basename(baseDir)).
RootPath == <<>>
RootName == <<"root", "">>

P_git == <<N_git>>
P_HEAD == <<N_git, N_HEAD>>
P_gitignore == <<N_gitignore>>
P_a == <<N_a>>
P_b == <<N_b>>
P_sub == <<N_sub>>
P_c == <<N_sub, N_c>>
P_in == <<N_sub, N_in>>
P_e == <<N_sub, N_in, N_e>>

Paths == {P_git, P_HEAD, P_gitignore, P_a, P_b, P_sub, P_c, P_in, P_e}

\* What an entry is on disk:
\*   "absent"  no such entry
\*   "text"    a regular file the binary probe accepts as text
\*   "ctrl"    such a file, dense in control characters
\*   "bin"     a regular file the binary probe reports as binary
\*   "dir"     a directory that can be listed
\*   "nolist"  a directory whose readdirSync throws (EACCES, deleted)
\*   "nostat"  an entry whose statSync throws (dangling symlink, EACCES)
\*   "noprobe" a non-directory whose isBinaryFileSync throws (unreadable)
FaultKinds == {"nolist", "nostat", "noprobe"}
DirKinds == {"dir", "nolist"}

Parent(p) == SubSeq(p, 1, Len(p) - 1)
Basename(p) == p[Len(p)]

\* localeCompare on the names of the universe: punctuation sorts before
\* letters, letters case-insensitively in alphabetical order.
NameRank(n) ==
  CASE n = N_git -> 1
    [] n = N_gitignore -> 2
    [] n = N_a -> 3
    [] n = N_b -> 4
    [] n = N_c -> 5
    [] n = N_e -> 6
    [] n = N_HEAD -> 7
    [] n = N_in -> 8
    [] n = N_sub -> 9
    [] OTHER -> 10

localeCompare(a, b) == NameRank(a) - NameRank(b)


\* The order in which the operating system yields directory entries is not
\* specified; readdirSync returns them unsorted.  Two orders are modelled:
\* ascending and descending byte order of the names.
ByteRank(n) ==
  CASE n = N_git -> 1
    [] n = N_gitignore -> 2
    [] n = N_HEAD -> 3
    [] n = N_a -> 4
    [] n = N_b -> 5
    [] n = N_c -> 6
    [] n = N_e -> 7
    [] n = N_in -> 8
    [] n = N_sub -> 9
    [] OTHER -> 10

Orders == {"asc", "desc"}

RECURSIVE direntOrder(_, _)
direntOrder(S, order) ==
  IF S = {} THEN <<>>
  ELSE LET m == CHOOSE x \in S : \A y \in S :
                  IF order = "desc" THEN ByteRank(y) <= ByteRank(x)
                                    ELSE ByteRank(x) <= ByteRank(y)
       IN  <<m>> \o direntOrder(S \ {m}, order)

\* ------------------------------------------------------------- file system
\* w is the FileCollector together with the disk it reads:
\*   w.fs [Paths \cup {RootPath} -> kind], w.order, w.ig (the compiled rules),
\*   w.isRecursive.
Children(f, p) ==
  {q \in Paths : Len(q) = Len(p) + 1 /\ Parent(q) = p /\ f[q] # "absent"}

readdirThrows(w, p) == w.fs[p] \notin {"dir"}

readdirSync(w, p) ==
  direntOrder({Basename(q) : q \in Children(w.fs, p)}, w.order)

statThrows(w, p) == w.fs[p] = "nostat"

isDirectory(w, p) == w.fs[p] \in DirKinds

\* isbinaryfile's isBinaryFileSync: throws when the file cannot be opened.
isBinaryThrows(w, p) == w.fs[p] = "noprobe"

isBinaryFileSync(w, p) == w.fs[p] = "bin"

\* ------------------------------------------------------------ ignore rules
\* A rule is one gitignore pattern: pat is the name it matches ("*" as stem
\* matches every stem), neg is a leading "!".
R_git == [neg |-> FALSE, pat |-> N_git]
R_notgit == [neg |-> TRUE, pat |-> N_git]
R_log == [neg |-> FALSE, pat |-> <<"*", "log">>]
R_notlog == [neg |-> TRUE, pat |-> <<"*", "log">>]
R_sub == [neg |-> FALSE, pat |-> N_sub]

\* A pattern without a slash is matched against the basename at any depth.
patternMatches(pat, name) ==
  /\ pat[1] = "*" \/ pat[1] = name[1]
  /\ pat[2] = name[2]

\* Mutant: the first rule that matches decides.
RECURSIVE testOne_FirstMatch(_, _, _)
testOne_FirstMatch(rules, name, verdict) ==
  IF rules = <<>> THEN verdict
  ELSE IF patternMatches(Head(rules).pat, name) THEN ~Head(rules).neg
  ELSE testOne_FirstMatch(Tail(rules), name, verdict)

\* The rules are all evaluated in order; the last one that matches decides.
RECURSIVE testOne(_, _, _)
testOne(rules, name, verdict) ==
  IF rules = <<>> THEN verdict
  ELSE testOne(Tail(rules), name,
               IF patternMatches(Head(rules).pat, name)
               THEN ~Head(rules).neg ELSE verdict)

\* Ignore.ignores: a path below an ignored directory is ignored, otherwise
\* the path's own verdict.
RECURSIVE ignores(_, _)
ignores(rules, relativePath) ==
  IF Len(relativePath) > 1 /\ ignores(rules, Parent(relativePath)) THEN TRUE
  ELSE testOne(rules, Basename(relativePath), FALSE)

\* Mutant: the built-in .git rule is not added.
IgnoreRulesManager_NoDefault(gitignore, extraIgnores) ==
  IF gitignore.state = "absent"
  THEN [threw |-> FALSE, ig |-> extraIgnores]
  ELSE IF gitignore.state = "unreadable"
  THEN [threw |-> TRUE, ig |-> <<>>]
  ELSE [threw |-> FALSE, ig |-> gitignore.lines \o extraIgnores]

\* Mutant: an unreadable .gitignore is treated as an empty one.
IgnoreRulesManager_Swallow(gitignore, extraIgnores) ==
  IF gitignore.state \in {"absent", "unreadable"}
  THEN [threw |-> FALSE, ig |-> <<R_git>> \o extraIgnores]
  ELSE [threw |-> FALSE, ig |-> <<R_git>> \o gitignore.lines \o extraIgnores]

\* The root's .gitignore: state is "absent", "unreadable" or "readable", and
\* lines are the rules of a readable file.  fs.existsSync, then
\* fs.readFileSync, which throws on an unreadable file.
IgnoreRulesManager(gitignore, extraIgnores) ==
  IF gitignore.state = "absent"
  THEN [threw |-> FALSE, ig |-> <<R_git>> \o extraIgnores]
  ELSE IF gitignore.state = "unreadable"
  THEN [threw |-> TRUE, ig |-> <<>>]
  ELSE [threw |-> FALSE, ig |-> <<R_git>> \o gitignore.lines \o extraIgnores]

\* IgnoreRulesManager.ignores, as the two walks call it on each child.
\* Mutant: the rules are applied to files only, so an ignored directory is
\* walked.
isIgnored_FilesOnly(w, relativePath) ==
  ~isDirectory(w, relativePath) /\ ignores(w.ig, relativePath)

isIgnored(w, relativePath) == ignores(w.ig, relativePath)

\* ---------------------------------------------------------- file collector
imageExts == {"jpg", "jpeg", "png", "gif", "bmp", "webp", "svg", "tiff", "tif"}

\* Mutant: the binary probe is asked first, and what it accepts is text
\* whatever its extension.
_detectFileType_ProbeFirst(w, filePath) ==
  IF isBinaryThrows(w, filePath) THEN [threw |-> TRUE, type |-> ""]
  ELSE IF ~isBinaryFileSync(w, filePath) THEN [threw |-> FALSE, type |-> "text"]
  ELSE IF Basename(filePath)[2] \in imageExts THEN [threw |-> FALSE, type |-> "image"]
  ELSE [threw |-> FALSE, type |-> "binary"]

\* [threw, type]
_detectFileType(w, filePath) ==
  IF Basename(filePath)[2] \in imageExts THEN [threw |-> FALSE, type |-> "image"]
  ELSE IF isBinaryThrows(w, filePath) THEN [threw |-> TRUE, type |-> ""]
  ELSE IF isBinaryFileSync(w, filePath) THEN [threw |-> FALSE, type |-> "binary"]
  ELSE [threw |-> FALSE, type |-> "text"]

CollectedFile(p, t) == [path |-> p, type |-> t, relativePath |-> p]

\* acc = [result: the files pushed so far, listed: the directories on which
\* readdirSync was called].  An exception thrown inside the forEach callback
\* leaves the loop and is caught by the try of the same invocation.
RECURSIVE _collectFilesRecursive(_, _, _)
RECURSIVE collectEach(_, _, _, _, _)

collectEach(w, dirPath, files, i, acc) ==
  IF i > Len(files) THEN acc
  ELSE LET fullPath == Append(dirPath, files[i]) IN
    IF isIgnored(w, fullPath) THEN collectEach(w, dirPath, files, i + 1, acc)
    ELSE IF statThrows(w, fullPath) THEN acc
    ELSE IF isDirectory(w, fullPath)
    THEN collectEach(w, dirPath, files, i + 1,
                     IF w.isRecursive
                     THEN _collectFilesRecursive(w, fullPath, acc) ELSE acc)
    ELSE LET t == _detectFileType(w, fullPath) IN
      IF t.threw THEN acc
      ELSE collectEach(w, dirPath, files, i + 1,
             [acc EXCEPT !.result = Append(@, CollectedFile(fullPath, t.type))])

_collectFilesRecursive(w, dirPath, acc) ==
  LET acc1 == [acc EXCEPT !.listed = @ \cup {dirPath}] IN
  IF readdirThrows(w, dirPath) THEN acc1
  ELSE collectEach(w, dirPath, readdirSync(w, dirPath), 1, acc1)

collectFiles(w) ==
  _collectFilesRecursive(w, RootPath, [result |-> <<>>, listed |-> {}])


\* ------------------------------------------------------------ tree builder
RootLine ==
  [kind |-> "root", prefix |-> <<>>, connector |-> "", name |-> RootName,
   isDir |-> TRUE]

TreeLine(prefix, connector, item, isDir) ==
  [kind |-> "entry", prefix |-> prefix, connector |-> connector,
   name |-> item, isDir |-> isDir]

ErrorLine(prefix) ==
  [kind |-> "error", prefix |-> prefix, connector |-> "", name |-> <<"", "">>,
   isDir |-> FALSE]

\* Mutant: the comparator orders by name only.
compareItems_NameOnly(w, currentDir, a, b) == localeCompare(a, b)

\* The comparator of items.sort: directories first, then localeCompare.
compareItems(w, currentDir, a, b) ==
  LET aIsDir == isDirectory(w, Append(currentDir, a))
      bIsDir == isDirectory(w, Append(currentDir, b))
  IN  IF aIsDir /\ ~bIsDir THEN -1
      ELSE IF ~aIsDir /\ bIsDir THEN 1
      ELSE localeCompare(a, b)

\* The comparator stats both of its arguments, and every item of a list of
\* two or more is compared at least once.
sortThrows(w, currentDir, items) ==
  /\ Len(items) >= 2
  /\ \E i \in 1..Len(items) : statThrows(w, Append(currentDir, items[i]))

insertItem(w, currentDir, x, sorted) ==
  LET k == Cardinality({i \in 1..Len(sorted) :
                          compareItems(w, currentDir, sorted[i], x) < 0})
  IN  SubSeq(sorted, 1, k) \o <<x>> \o SubSeq(sorted, k + 1, Len(sorted))

RECURSIVE sortItems(_, _, _)
sortItems(w, currentDir, items) ==
  IF items = <<>> THEN <<>>
  ELSE insertItem(w, currentDir, Head(items),
                  sortItems(w, currentDir, Tail(items)))

\* index === sortedItems.length - 1, with index counted from 1 here.
isLastIndex(index, sortedItems) == index = Len(sortedItems)

\* acc = [lines: the tree lines pushed so far, listed: the directories on
\* which readdirSync was called].
RECURSIVE _buildTree(_, _, _, _, _)
RECURSIVE buildEach(_, _, _, _, _, _, _)

buildEach(w, currentDir, prefix, depth, sortedItems, index, acc) ==
  IF index > Len(sortedItems) THEN acc
  ELSE LET item == sortedItems[index]
           fullPath == Append(currentDir, item)
       IN
    IF statThrows(w, fullPath)
    THEN [acc EXCEPT !.lines = Append(@, ErrorLine(prefix))]
    ELSE IF isIgnored(w, fullPath)
    THEN buildEach(w, currentDir, prefix, depth, sortedItems, index + 1, acc)
    ELSE LET isDir == isDirectory(w, fullPath)
             last == isLastIndex(index, sortedItems)
             connector == IF last THEN "+-- " ELSE "|-- "
             acc1 == [acc EXCEPT !.lines =
                        Append(@, TreeLine(prefix, connector, item, isDir))]
             nextPrefix == Append(prefix, IF last THEN "    " ELSE "|   ")
         IN  buildEach(w, currentDir, prefix, depth, sortedItems, index + 1,
                       IF isDir /\ w.isRecursive
                       THEN _buildTree(w, fullPath, nextPrefix, depth + 1, acc1)
                       ELSE acc1)

_buildTree(w, currentDir, prefix, depth, acc) ==
  IF depth > 0 /\ ~w.isRecursive THEN acc
  ELSE LET acc1 == [acc EXCEPT !.listed = @ \cup {currentDir}] IN
    IF readdirThrows(w, currentDir)
    THEN [acc1 EXCEPT !.lines = Append(@, ErrorLine(prefix))]
    ELSE LET items == readdirSync(w, currentDir) IN
      IF sortThrows(w, currentDir, items)
      THEN [acc1 EXCEPT !.lines = Append(@, ErrorLine(prefix))]
      ELSE buildEach(w, currentDir, prefix, depth,
                     sortItems(w, currentDir, items), 1, acc1)

getDirectoryStructure(w) ==
  _buildTree(w, RootPath, <<>>, 0, [lines |-> <<RootLine>>, listed |-> {}])

\* ------------------------------------------------------ file content reader
\* A string is [feff, segs]: feff says that it begins with U+FEFF, and segs
\* are its segments between line feeds, so that "" has no segment and "\n"
\* has two empty ones.  A segment is [no, len, ctl]: the line of the source
\* text it is (0: none of them), its length, and how many of its characters
\* are in \x00-\x08, \x0E-\x1F or \x7F-\x9F.
Line(no, len, ctl) == [no |-> no, len |-> len, ctl |-> ctl]
EmptyString == [feff |-> FALSE, segs |-> <<>>]

\* The sum of a field over segs[lo..hi], by halves.
RECURSIVE sumLen(_, _, _)
sumLen(segs, lo, hi) ==
  IF lo > hi THEN 0
  ELSE IF lo = hi THEN segs[lo].len
  ELSE LET mid == (lo + hi) \div 2
       IN  sumLen(segs, lo, mid) + sumLen(segs, mid + 1, hi)

RECURSIVE sumCtl(_, _, _)
sumCtl(segs, lo, hi) ==
  IF lo > hi THEN 0
  ELSE IF lo = hi THEN segs[lo].ctl
  ELSE LET mid == (lo + hi) \div 2
       IN  sumCtl(segs, lo, mid) + sumCtl(segs, mid + 1, hi)

\* content.length: the line feeds count, U+FEFF counts.
length(content) ==
  (IF content.feff THEN 1 ELSE 0) +
  (IF content.segs = <<>> THEN 0
   ELSE sumLen(content.segs, 1, Len(content.segs)) + Len(content.segs) - 1)

\* content.match(/[\x00-\x08\x0E-\x1F\x7F-\x9F]/g): U+FEFF and the line feed
\* are not in the class; no match is null.
controlChars(content) == sumCtl(content.segs, 1, Len(content.segs))

\* content.split('\n'): "" gives one empty line.
split(content) ==
  IF content.segs = <<>> THEN <<Line(1, 0, 0)>> ELSE content.segs

\* A file on disk is [charset, chardet, feff, segs]: the charset its text is
\* written in, what chardet.detect answers for its bytes ("null": nothing),
\* and the text.  Bytes in another charset than the one they are decoded with
\* do not give the source text: no line of the result is a line of the source.
Charsets == {"ascii", "Shift_JIS"}
Detections == {"UTF-8", "Shift_JIS", "null"}

Mojibake(segs) == [i \in DOMAIN segs |-> [segs[i] EXCEPT !.no = 0]]

\* Mutant: ASCII bytes too are only decoded by their own charset.
iconv_decode_Strict(file, encoding) ==
  [feff |-> file.feff,
   segs |-> IF encoding = file.charset THEN file.segs ELSE Mojibake(file.segs)]

iconv_decode(file, encoding) ==
  [feff |-> file.feff,
   segs |-> IF file.charset = "ascii" \/ encoding = file.charset
            THEN file.segs ELSE Mojibake(file.segs)]

\* d is the disk when the sections are assembled: d.fs, d.bytes, and
\* d.readFaults, what has happened to files since the scan: [path, at], where
\* at is the step that now throws: "probe" (isBinaryFileSync: the file
\* vanished), "read" (fs.readFileSync) or "decode" (iconv.decode: encoding not
\* recognized), or is "binary": the file was rewritten with binary content.
ReadingError == "Reading error"
BinaryNotice == "Binary file (content not displayed)"
ControlNotice == "File contains control characters (content not displayed)"
ReadSteps == {"probe", "read", "decode"}
ReadChanges == ReadSteps \cup {"binary"}

failsAt(d, filePath, step) ==
  [path |-> filePath, at |-> step] \in d.readFaults

Failure(error, encoding) ==
  [threw |-> FALSE, content |-> EmptyString, error |-> error, encoding |-> encoding]

\* Mutant: a tenth of the content is already too much.
tooManyControlChars_AtLeast(c, content) == c > 0 /\ 10 * c >= length(content)

\* controlChars && controlChars.length > content.length * 0.1, in integers.
tooManyControlChars(c, content) == c > 0 /\ 10 * c > length(content)

\* After the probe: read, detect, decode, strip U+FEFF, screen.
decodeFile(d, filePath) ==
  IF failsAt(d, filePath, "read") \/ failsAt(d, filePath, "decode")
  THEN Failure(ReadingError, "")
  ELSE LET file == d.bytes[filePath]
           encoding == IF file.chardet = "null" THEN "utf8" ELSE file.chardet
           decoded == iconv_decode(file, encoding)
           content == IF decoded.feff THEN [decoded EXCEPT !.feff = FALSE]
                      ELSE decoded
       IN  IF tooManyControlChars(controlChars(content), content)
           THEN Failure(ControlNotice, encoding)
           ELSE [threw |-> FALSE, content |-> content, error |-> "",
                 encoding |-> encoding]

\* Mutant: only the read is inside try/catch, the probe is before it.
getFileContent_ProbeOutsideTry(d, filePath) ==
  IF failsAt(d, filePath, "probe") \/ d.fs[filePath] \in {"absent", "noprobe", "nostat"}
  THEN [threw |-> TRUE, content |-> EmptyString, error |-> "", encoding |-> ""]
  ELSE IF d.fs[filePath] = "bin" \/ failsAt(d, filePath, "binary")
  THEN Failure(BinaryNotice, "")
  ELSE decodeFile(d, filePath)

\* The whole body is inside try/catch.
getFileContent(d, filePath) ==
  IF failsAt(d, filePath, "probe") \/ d.fs[filePath] \in {"absent", "noprobe", "nostat"}
  THEN Failure(ReadingError, "")
  ELSE IF d.fs[filePath] = "bin" \/ failsAt(d, filePath, "binary")
  THEN Failure(BinaryNotice, "")
  ELSE decodeFile(d, filePath)

\* ----------------------------------------------------------- html assembly
maxLines == 500
maxLineLength == 300

\* A section is the heading of a file and what follows it: a notice, an
\* image, or the encoding, the numbered lines and the marker of a <pre>.
Section(file, kind, notice) ==
  [relativePath |-> file.relativePath, kind |-> kind, notice |-> notice,
   encoding |-> "", lines |-> <<>>, marker |-> <<>>]

\* Mutant: a line of exactly maxLineLength characters is cut too.
displayLine_AtLeast(line) ==
  IF line.len >= maxLineLength
  THEN [no |-> line.no, len |-> maxLineLength, ellipsis |-> TRUE]
  ELSE [no |-> line.no, len |-> line.len, ellipsis |-> FALSE]

\* line.length > maxLineLength ? line.substring(0, maxLineLength) + '...' : line
displayLine(line) ==
  IF line.len > maxLineLength
  THEN [no |-> line.no, len |-> maxLineLength, ellipsis |-> TRUE]
  ELSE [no |-> line.no, len |-> line.len, ellipsis |-> FALSE]

PreSection(file, encoding, lines, marker) ==
  [relativePath |-> file.relativePath, kind |-> "pre", notice |-> "",
   encoding |-> encoding, lines |-> lines, marker |-> marker]

NumberedLines(displayLines) ==
  [i \in 1..Len(displayLines) |->
     [lineNumber |-> i, text |-> displayLine(displayLines[i])]]

\* Mutant: the marker is written from maxLines lines on.
renderLines_MarkerAtCap(file, content, encoding) ==
  LET contentLines == split(content)
      displayLines == IF Len(contentLines) > maxLines
                      THEN SubSeq(contentLines, 1, maxLines) ELSE contentLines
  IN  PreSection(file, encoding, NumberedLines(displayLines),
                 IF Len(contentLines) >= maxLines
                 THEN <<Len(contentLines) - maxLines>> ELSE <<>>)

\* The <pre> of a decoded content.
renderLines(file, content, encoding) ==
  LET contentLines == split(content)
      displayLines == IF Len(contentLines) > maxLines
                      THEN SubSeq(contentLines, 1, maxLines) ELSE contentLines
  IN  PreSection(file, encoding, NumberedLines(displayLines),
                 IF Len(contentLines) > maxLines
                 THEN <<Len(contentLines) - maxLines>> ELSE <<>>)

\* Mutant: an error does not end the function: the notice is followed by the
\* lines of the (empty) content.
_generateTextFileHTML_NoReturn(d, file) ==
  LET r == getFileContent(d, file.path) IN
  IF r.threw
  THEN [threw |-> TRUE, section |-> Section(file, "none", ""), decoded |-> <<file.path>>]
  ELSE [threw |-> FALSE,
        section |-> [renderLines(file, r.content, r.encoding) EXCEPT !.notice = r.error],
        decoded |-> <<file.path>>]

_generateTextFileHTML(d, file) ==
  LET r == getFileContent(d, file.path) IN
  IF r.threw
  THEN [threw |-> TRUE, section |-> Section(file, "none", ""), decoded |-> <<file.path>>]
  ELSE IF r.error # ""
  THEN [threw |-> FALSE, section |-> Section(file, "notice", r.error),
        decoded |-> <<file.path>>]
  ELSE [threw |-> FALSE, section |-> renderLines(file, r.content, r.encoding),
        decoded |-> <<file.path>>]

\* fs.readFileSync inside try/catch.
_generateImageHTML(d, file) ==
  IF failsAt(d, file.path, "probe") \/ failsAt(d, file.path, "read")
  THEN [threw |-> FALSE, section |-> Section(file, "notice", "Failed to load image"),
        decoded |-> <<>>]
  ELSE [threw |-> FALSE, section |-> Section(file, "image", ""), decoded |-> <<>>]

\* Mutant: there is no branch for binary files.
generateSection_NoBinaryBranch(d, file) ==
  IF file.type = "image" THEN _generateImageHTML(d, file)
  ELSE _generateTextFileHTML(d, file)

\* One turn of the for loop over the file list.
generateSection(d, file) ==
  IF file.type = "image" THEN _generateImageHTML(d, file)
  ELSE IF file.type = "binary"
  THEN [threw |-> FALSE, section |-> Section(file, "notice", BinaryNotice),
        decoded |-> <<>>]
  ELSE _generateTextFileHTML(d, file)

\* The for loop over the file list; an exception leaves it.  html is
\* [html, decoded]: the sections so far and the calls of getFileContent.
RECURSIVE _generateFileContentsHTML(_, _, _)
_generateFileContentsHTML(d, files, html) ==
  IF files = <<>> THEN [threw |-> FALSE, html |-> html.html, decoded |-> html.decoded]
  ELSE LET s == generateSection(d, Head(files))
           decoded == html.decoded \o s.decoded
       IN  IF s.threw THEN [threw |-> TRUE, html |-> html.html, decoded |-> decoded]
           ELSE _generateFileContentsHTML(d, Tail(files),
                  [html |-> Append(html.html, s.section), decoded |-> decoded])

\* files.filter(f => f.type === type).length
countType(files, type) ==
  Cardinality({i \in 1..Len(files) : files[i].type = type})

\* Mutant: every file that is not text is counted as binary.
fileCounts_NotText(files) ==
  [textCount |-> countType(files, "text"),
   imageCount |-> countType(files, "image"),
   binaryCount |-> Len(files) - countType(files, "text")]

fileCounts(files) ==
  [textCount |-> countType(files, "text"),
   imageCount |-> countType(files, "image"),
   binaryCount |-> countType(files, "binary")]

\* ------------------------------------------------------------------- state
VARIABLES
  pc,             \* where main() is
  fs,             \* the directory tree on disk
  text,           \* what the regular text files on disk hold
  order,          \* the order in which readdirSync yields entries
  gitignore,      \* the root's .gitignore
  extraIgnores,   \* options.ignore
  isRecursive,    \* options.recursive
  ig,             \* IgnoreRulesManager.ig, once constructed
  files,          \* const files = fileCollector.collectFiles()
  collectListed,  \* directories collectFiles called readdirSync on
  found,          \* textCount, imageCount, binaryCount of main
  treeLines,      \* const treeLines = fileCollector.getDirectoryStructure()
  treeListed,     \* directories getDirectoryStructure called readdirSync on
  readFaults,     \* files that fail when read back after the scan
  stats,          \* textCount, imageCount, binaryCount of generatePDF
  sections,       \* the per-file sections of the html
  decoded,        \* the calls of FileContentReader.getFileContent, in order
  tempHtml,       \* temp_snapshot.html exists
  browser,        \* the browser of puppeteer.launch(): "none", "open", "closed"
  cleanup         \* fs.unlinkSync(htmlPath): "none", "removed", "failed"

vars == <<pc, fs, text, order, gitignore, extraIgnores, isRecursive, ig, files,
          collectListed, found, treeListed, treeLines, readFaults, stats,
          sections, decoded, tempHtml, browser, cleanup>>

\* What the conversion of the html to a pdf works on.
conversion == <<browser, cleanup>>

\* What is given to a run, and does not change during it.
given == <<fs, text, order, gitignore, extraIgnores, isRecursive>>

\* ---------------------------------------------------------- initial states
GitignoreFiles ==
  { [state |-> "absent", lines |-> <<>>],
    [state |-> "unreadable", lines |-> <<>>],
    [state |-> "readable", lines |-> <<R_sub, R_notlog>>],
    [state |-> "readable", lines |-> <<R_notgit>>] }

ExtraPool == {R_log, R_notgit}

ExtraIgnoreLists ==
  UNION { [1..n -> ExtraPool] : n \in 0..MaxExtra }

\* A directory tree: an entry below something that is not a listable
\* directory does not exist for the scan.
MkFs(r, g, a, b, s, c, i, e, gi) ==
  LET sub(k) == IF r = "dir" /\ s = "dir" THEN k ELSE "absent"
      top(k) == IF r = "dir" THEN k ELSE "absent"
  IN  (RootPath :> r) @@ (P_git :> top(g)) @@
      (P_HEAD :> (IF top(g) = "dir" THEN "text" ELSE "absent")) @@
      (P_gitignore :> top(gi)) @@ (P_a :> top(a)) @@ (P_b :> top(b)) @@
      (P_sub :> top(s)) @@ (P_c :> sub(c)) @@ (P_in :> sub(i)) @@
      (P_e :> (IF sub(i) = "dir" THEN e ELSE "absent"))

Faults(f) == Cardinality({p \in DOMAIN f : f[p] \in FaultKinds})

FileSystems(gi) ==
  { f \in { MkFs(r, g, a, b, s, c, i, e,
                 IF gi.state = "absent" THEN "absent" ELSE "text") :
              r \in {"dir", "nolist"},
              g \in {"absent", "dir"},
              a \in {"absent", "text", "ctrl", "bin", "nostat", "noprobe"},
              b \in {"absent", "text", "nostat"},
              s \in {"absent", "dir", "nolist", "nostat"},
              c \in {"absent", "text", "noprobe"},
              i \in {"absent", "dir", "nolist"},
              e \in {"absent", "text"} } :
      Faults(f) <= MaxFaults }

\* Two lines of ASCII text, and one line a fifth of which is control characters.
PlainFile ==
  [charset |-> "ascii", chardet |-> "UTF-8", feff |-> FALSE,
   segs |-> <<Line(1, 5, 0), Line(2, 3, 0)>>]

DenseFile ==
  [charset |-> "ascii", chardet |-> "UTF-8", feff |-> FALSE,
   segs |-> <<Line(1, 10, 2)>>]

Scanned ==
  /\ pc = "start"
  /\ ig = <<>>
  /\ files = <<>>
  /\ collectListed = {}
  /\ found = <<>>
  /\ treeLines = <<>>
  /\ treeListed = {}
  /\ readFaults = {}
  /\ stats = <<>>
  /\ sections = <<>>
  /\ decoded = <<>>
  /\ tempHtml = FALSE
  /\ browser = "none"
  /\ cleanup = "none"

Init ==
  /\ gitignore \in GitignoreFiles
  /\ extraIgnores \in ExtraIgnoreLists
  /\ isRecursive \in BOOLEAN
  /\ order \in Orders
  /\ fs \in FileSystems(gitignore)
  /\ text = PlainFile
  /\ Scanned

\* ----------------------------------------------------------------- actions
Collector == [fs |-> fs, order |-> order, ig |-> ig, isRecursive |-> isRecursive]

Disk ==
  [fs |-> fs, readFaults |-> readFaults,
   bytes |-> [p \in Paths |-> IF fs[p] = "ctrl" THEN DenseFile ELSE text]]

\* new IgnoreRulesManager(baseDir, options.ignore || []): outside the try of
\* main, so an exception rejects main() and the process exits with 1.
Construct ==
  /\ pc = "start"
  /\ LET r == IgnoreRulesManager(gitignore, extraIgnores) IN
       IF r.threw THEN pc' = "fatal" /\ ig' = ig
       ELSE pc' = "constructed" /\ ig' = r.ig
  /\ UNCHANGED <<given, conversion, files, collectListed, found, treeLines, treeListed,
                 readFaults, stats, sections, decoded, tempHtml>>

\* const files = fileCollector.collectFiles(), and the counts main logs.
CollectFiles ==
  /\ pc = "constructed"
  /\ LET r == collectFiles(Collector) IN
       /\ files' = r.result
       /\ collectListed' = r.listed
       /\ found' = fileCounts(r.result)
  /\ pc' = "collected"
  /\ UNCHANGED <<given, conversion, ig, treeLines, treeListed, readFaults, stats, sections,
                 decoded, tempHtml>>

GetDirectoryStructure ==
  /\ pc = "collected"
  /\ LET r == getDirectoryStructure(Collector) IN
       treeLines' = r.lines /\ treeListed' = r.listed
  /\ pc' = "structured"
  /\ UNCHANGED <<given, conversion, ig, files, collectListed, found, readFaults, stats,
                 sections, decoded, tempHtml>>

\* The environment: a collected file is deleted, damaged or rewritten before
\* it is read.
ReadFault ==
  /\ pc = "structured"
  /\ Cardinality(readFaults) < MaxReadFaults
  /\ Faults(fs) + Cardinality(readFaults) < MaxFaults
  /\ \E i \in 1..Len(files), step \in ReadChanges :
       /\ files[i].type = "text" \/ (files[i].type = "image" /\ step = "read")
       /\ \A x \in readFaults : x.path # files[i].path
       /\ readFaults' = readFaults \cup {[path |-> files[i].path, at |-> step]}
  /\ UNCHANGED <<pc, given, conversion, ig, files, collectListed, found, treeLines,
                 treeListed, stats, sections, decoded, tempHtml>>

\* generatePDF, its first statements: the three counts.
CountTypes ==
  /\ pc = "structured"
  /\ stats' = fileCounts(files)
  /\ pc' = "counted"
  /\ UNCHANGED <<given, conversion, ig, files, collectListed, found, treeLines, treeListed,
                 readFaults, sections, decoded, tempHtml>>

\* generatePDF up to _generateHTML: inside the try of main, whose catch
\* exits with 1.
GenerateHTML ==
  /\ pc = "counted"
  /\ LET r == _generateFileContentsHTML(Disk, files, [html |-> <<>>, decoded |-> <<>>]) IN
       /\ sections' = r.html
       /\ decoded' = r.decoded
       /\ pc' = IF r.threw THEN "failed" ELSE "generated"
  /\ UNCHANGED <<given, conversion, ig, files, collectListed, found, treeLines, treeListed,
                 readFaults, stats, tempHtml>>

\* fs.writeFileSync(htmlPath, htmlContent, 'utf8')
WriteTempHTML ==
  /\ pc = "generated"
  /\ tempHtml' = TRUE
  /\ pc' = "written"
  /\ UNCHANGED <<given, conversion, ig, files, collectListed, found, treeLines, treeListed,
                 readFaults, stats, sections, decoded>>

Next ==
  \/ Construct
  \/ CollectFiles
  \/ GetDirectoryStructure
  \/ ReadFault
  \/ CountTypes
  \/ GenerateHTML
  \/ WriteTempHTML

Spec == Init /\ [][Next]_vars

\* ------------------------------------------------- the run over one text file
\* The same run over a root that holds a.txt alone, for every text of
\* TextInputs in a.txt.
MkSegs(n, base, k, special) ==
  IF n = 1 /\ special[1] = 0 THEN <<>>
  ELSE [i \in 1..n |-> IF i = k THEN Line(i, special[1], special[2])
                                ELSE Line(i, base, 0)]

\* <<length, control characters>> of a line.
Shapes ==
  { <<0, 0>>, <<3, 0>>, <<9, 1>>, <<10, 1>>, <<10, 2>>, <<300, 0>>, <<301, 0>>,
    <<301, 31>>, <<1000, 100>>, <<1000, 101>>, <<1000, 150>> }

ShortTexts ==
  { [charset |-> cs, chardet |-> cd, feff |-> bom, segs |-> MkSegs(n, base, k, sh)] :
      cs \in Charsets, cd \in Detections, bom \in BOOLEAN,
      n \in 1..2, base \in {0, 3}, k \in 1..2, sh \in Shapes }

LongTexts ==
  UNION { { [charset |-> "ascii", chardet |-> "null", feff |-> bom,
             segs |-> MkSegs(n, 3, k, sh)] :
              k \in {1, maxLines, n}, sh \in {<<0, 0>>, <<3, 0>>, <<301, 0>>, <<1000, 150>>},
              bom \in BOOLEAN } :
          n \in (maxLines - 1)..(maxLines + MaxOver) }

TextInputs == ShortTexts \cup LongTexts

InitText ==
  /\ gitignore = [state |-> "absent", lines |-> <<>>]
  /\ extraIgnores = <<>>
  /\ isRecursive = TRUE
  /\ order = "asc"
  /\ fs = MkFs("dir", "absent", "text", "absent", "absent", "absent", "absent",
               "absent", "absent")
  /\ text \in TextInputs
  /\ Scanned

SpecText == InitText /\ [][Next]_vars

\* ------------------------------------------- the conversion of generatePDF
\* generatePDF after the temporary html is written, one action per await;
\* each promise is fulfilled or rejected.  No statement of generatePDF is
\* inside a try but fs.unlinkSync: a rejection leaves generatePDF at once,
\* and main exits with 1.
scanned == <<ig, files, collectListed, found, treeLines, treeListed, readFaults,
             stats, sections, decoded>>

\* const browser = await puppeteer.launch()
Launch ==
  /\ pc = "written"
  /\ \E fulfilled \in BOOLEAN :
       IF fulfilled THEN pc' = "launched" /\ browser' = "open"
       ELSE pc' = "rejected" /\ browser' = browser
  /\ UNCHANGED <<given, scanned, tempHtml, cleanup>>

\* const page = await browser.newPage()
NewPage ==
  /\ pc = "launched"
  /\ \E fulfilled \in BOOLEAN : pc' = IF fulfilled THEN "paged" ELSE "rejected"
  /\ UNCHANGED <<given, scanned, tempHtml, conversion>>

\* await page.setContent(htmlContent, { waitUntil: 'networkidle0' })
SetContent ==
  /\ pc = "paged"
  /\ \E fulfilled \in BOOLEAN : pc' = IF fulfilled THEN "loaded" ELSE "rejected"
  /\ UNCHANGED <<given, scanned, tempHtml, conversion>>

\* await page.pdf({ path: this.options.outputFile, ... })
PrintPdf ==
  /\ pc = "loaded"
  /\ \E fulfilled \in BOOLEAN : pc' = IF fulfilled THEN "printed" ELSE "rejected"
  /\ UNCHANGED <<given, scanned, tempHtml, conversion>>

\* await browser.close()
CloseBrowser ==
  /\ pc = "printed"
  /\ \E fulfilled \in BOOLEAN :
       IF fulfilled THEN pc' = "closed" /\ browser' = "closed"
       ELSE pc' = "rejected" /\ browser' = browser
  /\ UNCHANGED <<given, scanned, tempHtml, cleanup>>

\* try { fs.unlinkSync(htmlPath) } catch (e) {}, and return the output file.
UnlinkTempHTML ==
  /\ pc = "closed"
  /\ \E removed \in BOOLEAN :
       IF removed THEN tempHtml' = FALSE /\ cleanup' = "removed"
       ELSE tempHtml' = tempHtml /\ cleanup' = "failed"
  /\ pc' = "resolved"
  /\ UNCHANGED <<given, scanned, browser>>

NextPdf ==
  \/ Next
  \/ Launch
  \/ NewPage
  \/ SetContent
  \/ PrintPdf
  \/ CloseBrowser
  \/ UnlinkTempHTML

\* The run to its end, over the directories in which nothing fails.
InitPdf ==
  /\ gitignore = [state |-> "absent", lines |-> <<>>]
  /\ extraIgnores = <<>>
  /\ isRecursive \in BOOLEAN
  /\ order = "asc"
  /\ fs \in {f \in FileSystems(gitignore) : Faults(f) = 0}
  /\ text = PlainFile
  /\ Scanned

SpecPdf == InitPdf /\ [][NextPdf]_vars


\* ============================================================== properties
\* Both walks have returned: what they produced is examined here, before
\* generatePDF is called and anything else happens; ScanKept says that what
\* follows leaves it alone.
ScanDone == pc = "structured" /\ readFaults = {}

ScanKept ==
  [][pc \notin {"start", "constructed", "collected"} =>
       /\ files' = files /\ collectListed' = collectListed /\ found' = found
       /\ treeLines' = treeLines /\ treeListed' = treeListed /\ ig' = ig
       /\ given' = given]_vars

\* The sections have been assembled.
Assembled == pc \in {"generated", "written"}

IsPrefix(p, q) == Len(p) <= Len(q) /\ SubSeq(q, 1, Len(p)) = p

EntryLines(lines) == {i \in 1..Len(lines) : lines[i].kind = "entry"}

LineDepth(lines, i) == Len(lines[i].prefix)

\* The line of the directory that line i is printed under: the nearest
\* earlier entry line that is one level up (0 when line i is at the top).
ParentLine(lines, i) ==
  LET up == {j \in EntryLines(lines) :
               j < i /\ LineDepth(lines, j) = LineDepth(lines, i) - 1}
  IN  IF up = {} THEN 0 ELSE CHOOSE j \in up : \A k \in up : k <= j

\* The root-relative path a tree line stands for, read back from the lines.
RECURSIVE LinePath(_, _)
LinePath(lines, i) ==
  IF LineDepth(lines, i) = 0 \/ ParentLine(lines, i) = 0
  THEN <<lines[i].name>>
  ELSE Append(LinePath(lines, ParentLine(lines, i)), lines[i].name)

TreePaths(lines) == {LinePath(lines, i) : i \in EntryLines(lines)}

TreeFilePaths(lines) ==
  {LinePath(lines, i) : i \in {j \in EntryLines(lines) : ~lines[j].isDir}}

ListPaths(list) == {list[i].relativePath : i \in 1..Len(list)}

HasErrorLine(lines) == \E i \in 1..Len(lines) : lines[i].kind = "error"

Exists(p) == fs[p] # "absent"

\* (C1) The relative paths of the file list are exactly the non-directory
\* entries of the tree lines, also when an entry cannot be stat-ed or a
\* directory cannot be listed.
C1_FileListEqualsTreeLeaves ==
  ScanDone => ListPaths(files) = TreeFilePaths(treeLines)

\* (C2) An ignored child is skipped entirely: neither it nor anything below
\* it is in the tree lines or in the file list, and neither walk lists it.
\* With *.log, a.txt, b.log, sub/c.log and recursive=true the file list is
\* exactly a.txt, and the tree has sub/ but neither b.log nor c.log.
C2_Example ==
  /\ isRecursive
  /\ gitignore.state = "absent"
  /\ extraIgnores = <<R_log>>
  /\ \A p \in Paths : fs[p] = (IF p \in {P_a, P_b, P_c} THEN "text"
                               ELSE IF p = P_sub THEN "dir" ELSE "absent")
  /\ fs[RootPath] = "dir"

C2_IgnoredSkipped ==
  ScanDone =>
    /\ \A p \in Paths : Exists(p) /\ ignores(ig, p) =>
         /\ \A q \in ListPaths(files) \cup TreePaths(treeLines) : ~IsPrefix(p, q)
         /\ \A q \in collectListed \cup treeListed : ~IsPrefix(p, q)
    /\ C2_Example =>
         /\ [i \in 1..Len(files) |-> files[i].relativePath] = <<P_a>>
         /\ TreePaths(treeLines) = {P_sub, P_a}
         /\ \E i \in EntryLines(treeLines) :
              treeLines[i].name = N_sub /\ treeLines[i].isDir

C2_Witness ==
  /\ ScanDone
  /\ C2_Example
  /\ Len(files) = 1


\* (C3) A .git directory at the root is in neither the tree lines nor the
\* file list, whatever the .gitignore and the extra patterns are (negated
\* patterns such as !.git included).
GitExcluded ==
  /\ \A q \in ListPaths(files) \cup TreePaths(treeLines) : ~IsPrefix(P_git, q)
  /\ \A q \in collectListed \cup treeListed : ~IsPrefix(P_git, q)

NoNegationOfGit ==
  \A i \in 1..Len(gitignore.lines \o extraIgnores) :
    LET r == (gitignore.lines \o extraIgnores)[i]
    IN  ~(r.neg /\ patternMatches(r.pat, N_git))

C4_RecursionPolicy ==
  ScanDone =>
    /\ ~isRecursive =>
         /\ \A q \in ListPaths(files) : Len(q) = 1
         /\ \A i \in 1..Len(treeLines) : LineDepth(treeLines, i) = 0
         /\ \A p \in Paths :
              Len(p) = 1 /\ fs[p] \in DirKinds /\ ~ignores(ig, p) =>
                Cardinality({i \in EntryLines(treeLines) :
                               treeLines[i].name = Basename(p)
                               /\ treeLines[i].isDir}) = 1
         /\ collectListed \cup treeListed \subseteq {RootPath}
    /\ isRecursive =>
         \A p \in Paths : fs[p] \in DirKinds /\ ~ignores(ig, p) =>
           p \in collectListed /\ p \in treeListed

\* The children of one directory, as the tree shows them: entry lines at the
\* same depth under the same parent line.
Siblings(lines, i, j) ==
  /\ i \in EntryLines(lines) /\ j \in EntryLines(lines)
  /\ LineDepth(lines, i) = LineDepth(lines, j)
  /\ ParentLine(lines, i) = ParentLine(lines, j)

\* (C5) In every directory of the tree the children's lines have all
\* directories before all files and ascending names (localeCompare) within
\* each kind, and what is below a directory follows its line immediately,
\* before its next sibling.
C5_TreeOrdering ==
  ScanDone =>
    /\ \A i, j \in EntryLines(treeLines) :
         i < j /\ Siblings(treeLines, i, j) =>
           /\ treeLines[i].isDir \/ ~treeLines[j].isDir
           /\ treeLines[i].isDir = treeLines[j].isDir =>
                localeCompare(treeLines[i].name, treeLines[j].name) < 0
           /\ \A k \in (i + 1)..(j - 1) :
                \/ LineDepth(treeLines, k) > LineDepth(treeLines, i)
                \/ Siblings(treeLines, i, k)
    /\ \A a \in 1..(Len(treeLines) - 1) :
         LineDepth(treeLines, a + 1) > LineDepth(treeLines, a) =>
           /\ treeLines[a].kind = "entry" /\ treeLines[a].isDir
           /\ LineDepth(treeLines, a + 1) = LineDepth(treeLines, a) + 1

C5_Witness ==
  /\ ScanDone
  /\ order = "desc"
  /\ isRecursive
  /\ {P_sub, P_a, P_b, P_c, P_in, P_e} \subseteq TreePaths(treeLines)

\* (C6) In every directory with a visible child, the last visible child's
\* line has the terminal connector and every earlier one the tee connector,
\* whatever mix of ignored and visible children the directory has.
C6_LastChildConnector ==
  ScanDone =>
    \A i \in EntryLines(treeLines) :
      LET last == \A j \in EntryLines(treeLines) :
                    Siblings(treeLines, i, j) => j <= i
      IN  treeLines[i].connector = (IF last THEN "+-- " ELSE "|-- ")


\* An entry the scan is meant to cover: it exists, it is not ignored, and it
\* is a child of the root unless the scan is recursive.
InScope(p) == Exists(p) /\ ~ignores(ig, p) /\ (isRecursive \/ Len(p) = 1)

\* (C7) When listing a directory fails during the walk, the tree has an
\* 'Error: ...' line at that directory's position, the directory adds nothing
\* to the file list, and every sibling of it, before and after, is still
\* listed in the tree and collected into the file list.
C7_ListingFailureIsLocal ==
  ScanDone =>
    \A D \in Paths : fs[D] = "nolist" /\ D \in collectListed \cup treeListed =>
      /\ \E i \in EntryLines(treeLines) :
           /\ LinePath(treeLines, i) = D
           /\ i + 1 <= Len(treeLines)
           /\ treeLines[i + 1].kind = "error"
           /\ LineDepth(treeLines, i + 1) = LineDepth(treeLines, i) + 1
      /\ \A q \in ListPaths(files) : ~IsPrefix(D, q)
      /\ \A S \in Paths :
           /\ S # D /\ Len(S) = Len(D) /\ Parent(S) = Parent(D)
           /\ Exists(S) /\ ~ignores(ig, S) /\ fs[S] \notin FaultKinds
           => /\ S \in TreePaths(treeLines)
              /\ fs[S] \notin DirKinds => S \in ListPaths(files)

\* (C8) No failure on a single entry aborts the scan or the assembly, and
\* none makes a non-ignored entry disappear without a trace: a file that has
\* no section is accounted for by a placeholder line in the tree.
C8_NoSilentOmission ==
  pc \in {"generated", "written", "failed"} =>
    /\ pc # "failed"
    /\ \A p \in Paths : InScope(p) /\ fs[p] \in {"text", "bin"} =>
         \/ \E i \in 1..Len(sections) : sections[i].relativePath = p
         \/ HasErrorLine(treeLines)

\* (C9) An existing but unreadable .gitignore makes the construction of the
\* ignore rules raise, and the run ends in failure before any directory is
\* listed, any file is classified or decoded, and any output is written.  An
\* absent .gitignore gives the built-in .git rule followed by the extra
\* patterns.
C9_UnreadableGitignoreIsFatal ==
  pc # "start" =>
    /\ gitignore.state = "unreadable" =>
         /\ pc = "fatal"
         /\ collectListed = {} /\ treeListed = {}
         /\ files = <<>> /\ treeLines = <<>>
         /\ sections = <<>> /\ ~tempHtml
    /\ gitignore.state # "unreadable" => pc # "fatal"
    /\ gitignore.state = "absent" => ig = <<R_git>> \o extraIgnores

C9_Witness ==
  /\ pc = "fatal"
  /\ gitignore.state = "unreadable"
  /\ fs[P_a] = "text"
  /\ extraIgnores # <<>>

\* (C10) getFileContent never raises: a failure of the binary probe, of the
\* read or of the decoding gives empty content and a 'Reading error', and
\* the sections of the files after it in the file list are still produced.
C10_ReadErrorsAreCaught ==
  /\ pc = "counted" =>
       LET d == Disk IN
       /\ \A p \in Paths : ~getFileContent(d, p).threw
       /\ \A x \in readFaults :
            fs[x.path] = "text" /\ x.at \in ReadSteps =>
              /\ getFileContent(d, x.path).content = EmptyString
              /\ getFileContent(d, x.path).error = ReadingError
  /\ pc \in {"generated", "written", "failed"} =>
       /\ pc # "failed"
       /\ Len(sections) = Len(files)
       /\ \A i \in 1..Len(files) :
            /\ sections[i].relativePath = files[i].relativePath
            /\ (files[i].type = "text"
                /\ \E x \in readFaults : x.path = files[i].path /\ x.at \in ReadSteps)
               => sections[i].kind = "notice" /\ sections[i].notice = ReadingError

C10_Witness ==
  /\ Assembled
  /\ \E i \in 1..(Len(files) - 1) :
       /\ files[i].type = "text"
       /\ failsAt(Disk, files[i].path, "probe")
       /\ sections[i].kind = "notice"
       /\ sections[i + 1].kind = "pre"


\* ------------------------------------------------- decoding and rendering
\* The text file of SpecText, its result and its section.
TheFile == CollectedFile(P_a, "text")

\* f[lo] + ... + f[hi]
RECURSIVE Sum(_, _, _)
Sum(f, lo, hi) ==
  IF lo > hi THEN 0
  ELSE IF lo = hi THEN f[lo]
  ELSE Sum(f, lo, (lo + hi) \div 2) + Sum(f, (lo + hi) \div 2 + 1, hi)

Min(a, b) == IF a < b THEN a ELSE b

Notices == {ReadingError, BinaryNotice, ControlNotice}

\* (C11) In a result of getFileContent an error comes with empty content
\* only, and the section of a text entry is either one notice without any
\* line, encoding or marker, or the numbered lines without a notice.
C11_ErrorExcludesContent ==
  /\ pc = "counted" =>
       LET d == Disk IN
       \A p \in Paths :
         LET r == getFileContent(d, p) IN
         /\ r.error # "" => r.content = EmptyString
         /\ r.error = "" => fs[p] \in {"text", "ctrl"}
  /\ Assembled =>
       \A i \in 1..Len(sections) :
         files[i].type = "text" =>
           \/ /\ sections[i].kind = "notice"
              /\ sections[i].notice \in Notices
              /\ sections[i].lines = <<>>
              /\ sections[i].marker = <<>>
              /\ sections[i].encoding = ""
           \/ /\ sections[i].kind = "pre"
              /\ sections[i].notice = ""
              /\ Len(sections[i].lines) >= 1

C11_Witness ==
  /\ Assembled
  /\ files = <<TheFile>>
  /\ sections[1].kind = "notice"
  /\ sections[1].notice = ControlNotice

\* (C12) For a text file that passes the probe and is read, with c the
\* number of control characters of the decoded text and L its length once
\* U+FEFF is removed: c > L/10 gives the control-character error and empty
\* content, c <= L/10 gives the decoded text itself.  150 control characters
\* among 1000 give the error.
C12_Example == text.segs = <<Line(1, 1000, 150)>>

C12_ControlCharacterThreshold ==
  pc = "counted" /\ fs[P_a] = "text" /\ readFaults = {} =>
    LET r == getFileContent(Disk, P_a)
        n == Len(text.segs)
        c == Sum([k \in 1..n |-> text.segs[k].ctl], 1, n)
        L == Sum([k \in 1..n |-> text.segs[k].len], 1, n) + (IF n = 0 THEN 0 ELSE n - 1)
        wrong == text.charset # "ascii" /\ r.encoding # text.charset
    IN  /\ 10 * c > L => r.error = ControlNotice /\ r.content = EmptyString
        /\ 10 * c <= L =>
             /\ r.error = ""
             /\ ~r.content.feff
             /\ Len(r.content.segs) = n
             /\ \A k \in 1..n :
                  /\ r.content.segs[k].len = text.segs[k].len
                  /\ r.content.segs[k].ctl = text.segs[k].ctl
                  /\ r.content.segs[k].no = (IF wrong THEN 0 ELSE k)
        /\ C12_Example => r.error = ControlNotice

C12_Witness ==
  /\ pc = "counted"
  /\ readFaults = {}
  /\ C12_Example
  /\ getFileContent(Disk, P_a).error = ControlNotice
  /\ text.feff

\* The lines of the decoded content of the file, when it was rendered.
Rendered == Assembled /\ files = <<TheFile>> /\ sections[1].kind = "pre"

SourceLines == split(getFileContent(Disk, P_a).content)

\* (C13) A text of n lines (n - 1 line feeds) is rendered as its first
\* min(n, 500) lines in order, numbered from 1, and the marker is there
\* exactly when n > 500 and says n - 500.  501 lines give 500 lines and a
\* marker of 1, 500 lines give no marker.
C13_LineCap ==
  Rendered =>
    LET src == SourceLines
        n == Len(src)
        out == sections[1]
    IN  /\ Len(out.lines) = Min(n, 500)
        /\ \A i \in 1..Len(out.lines) :
             /\ out.lines[i].lineNumber = i
             /\ out.lines[i].text.no = src[i].no
        /\ out.marker = (IF n > 500 THEN <<n - 500>> ELSE <<>>)
        /\ n = 501 => Len(out.lines) = 500 /\ out.marker = <<1>>
        /\ n = 500 => Len(out.lines) = 500 /\ out.marker = <<>>

C13_Witness ==
  /\ Rendered
  /\ Len(text.segs) = 501
  /\ Len(sections[1].lines) = 500
  /\ sections[1].marker = <<1>>

\* (C14) A kept line of more than 300 characters is rendered as its first
\* 300 and '...', a shorter one in full, with or without the line cap, and
\* neither the number of kept lines nor the marker depends on it.
C14_LineTruncation ==
  Rendered =>
    LET src == SourceLines
        out == sections[1]
    IN  /\ \A i \in 1..Len(out.lines) :
             IF src[i].len > 300
             THEN out.lines[i].text.len = 300 /\ out.lines[i].text.ellipsis
             ELSE out.lines[i].text.len = src[i].len /\ ~out.lines[i].text.ellipsis
        /\ Len(out.lines) = Min(Len(src), 500)
        /\ out.marker = (IF Len(src) > 500 THEN <<Len(src) - 500>> ELSE <<>>)

C14_Witness ==
  /\ Rendered
  /\ Len(text.segs) > 500
  /\ sections[1].marker # <<>>
  /\ \E i \in 1..Len(sections[1].lines) : sections[1].lines[i].text.ellipsis
  /\ \E i \in 1..Len(sections[1].lines) : ~sections[1].lines[i].text.ellipsis

\* ASCII text without control characters, of at most 500 lines.
PureAscii ==
  /\ text.charset = "ascii"
  /\ ~text.feff
  /\ \A k \in 1..Len(text.segs) : text.segs[k].ctl = 0
  /\ Len(text.segs) <= 500

RoundTrip ==
  /\ sections[1].kind = "pre"
  /\ getFileContent(Disk, P_a).content = [feff |-> FALSE, segs |-> text.segs]
  /\ sections[1].marker = <<>>

\* (C15, as claimed) Pure ASCII text of at most 500 lines is decoded to
\* itself and rendered without any marker: no omitted-lines marker and no
\* '...' on any line.
C15_NoMarkerOfAnyKind ==
  Assembled /\ files = <<TheFile>> /\ readFaults = {} /\ PureAscii =>
    /\ RoundTrip
    /\ \A i \in 1..Len(sections[1].lines) : ~sections[1].lines[i].text.ellipsis

\* (C15, amended) Pure ASCII text of at most 500 lines is decoded to itself
\* and rendered without the omitted-lines marker; a line carries '...'
\* exactly when it is longer than 300 characters.
C15_AsciiRoundTrip ==
  Assembled /\ files = <<TheFile>> /\ readFaults = {} /\ PureAscii =>
    /\ RoundTrip
    /\ \A i \in 1..Len(sections[1].lines) :
         sections[1].lines[i].text.ellipsis <=> SourceLines[i].len > 300

C15_Witness ==
  /\ Rendered
  /\ readFaults = {}
  /\ PureAscii
  /\ text.chardet = "Shift_JIS"
  /\ \E i \in 1..Len(sections[1].lines) : sections[1].lines[i].text.ellipsis

\* ---------------------------------------------------- the whole document
IsText(f) == f.type = "text"

PathsOf(list) == [i \in 1..Len(list) |-> list[i].path]

\* (C16) getFileContent is called for the text entries of the file list
\* only, once each and in their order, and only while the sections are
\* assembled: no call is made before, during the two walks or the counting.
C16_DecoderCalls ==
  /\ pc \in {"start", "fatal", "constructed", "collected", "structured", "counted"}
       => decoded = <<>>
  /\ pc \in {"generated", "written"} => decoded = PathsOf(SelectSeq(files, IsText))
  /\ pc # "failed"

C16_Witness ==
  /\ Assembled
  /\ \A t \in {"text", "image", "binary"} : \E i \in 1..Len(files) : files[i].type = t
  /\ Len(decoded) = 2

HasImageExt(p) == Basename(p)[2] \in imageExts

\* A text entry whose content does not pass the decoder: rewritten as binary
\* since the scan, or dense in control characters.
FailsProbe(f) == [path |-> f.path, at |-> "binary"] \in readFaults

FailsScreen(f) ==
  /\ fs[f.path] = "ctrl"
  /\ \A x \in readFaults : x.path # f.path

NotDisplayed(i) ==
  /\ files[i].type = "text" /\ FailsProbe(files[i])
       => sections[i].kind = "notice" /\ sections[i].notice = BinaryNotice
  /\ files[i].type = "text" /\ FailsScreen(files[i])
       => sections[i].kind = "notice" /\ sections[i].notice = ControlNotice

\* (C17, as claimed) Where extension and content disagree the content
\* decides: a file with an image extension that holds text is not rendered
\* as an image, and a text entry that fails the probe or the screen of the
\* decoder is rendered as a 'not displayed' notice.
C17_ContentAlwaysDecides ==
  Assembled =>
    \A i \in 1..Len(files) :
      /\ HasImageExt(files[i].path) /\ fs[files[i].path] = "text"
           => sections[i].kind # "image"
      /\ NotDisplayed(i)

\* (C17, amended) The content decides among the files without an image
\* extension; a file with an image extension is an image entry and is
\* rendered as an image whatever it holds.
C17_ContentDecidesButForImages ==
  Assembled =>
    \A i \in 1..Len(files) :
      /\ HasImageExt(files[i].path) =>
           /\ files[i].type = "image"
           /\ IF \E x \in readFaults : x.path = files[i].path
              THEN sections[i].notice = "Failed to load image"
              ELSE sections[i].kind = "image"
      /\ NotDisplayed(i)

C17_Witness ==
  /\ Assembled
  /\ readFaults = {}
  /\ \E i, j \in 1..Len(files) :
       /\ files[i].path = P_e /\ fs[P_e] = "text" /\ sections[i].kind = "image"
       /\ files[j].path = P_a /\ fs[P_a] = "ctrl" /\ sections[j].notice = ControlNotice

\* The files of the tree lines, in the order of the lines.
FileLines(lines) == SelectSeq([i \in 1..Len(lines) |-> i],
                              LAMBDA i : lines[i].kind = "entry" /\ ~lines[i].isDir)

TreeFileOrder(lines) ==
  [k \in 1..Len(FileLines(lines)) |-> LinePath(lines, FileLines(lines)[k])]

\* (C18) The sections are one per file in the order of the file list, and
\* the file list has its files in the order in which the tree lines show the
\* same files.
C18_SectionsFollowTreeOrder ==
  /\ Assembled =>
       /\ Len(sections) = Len(files)
       /\ \A i \in 1..Len(files) : sections[i].relativePath = files[i].relativePath
  /\ ScanDone /\ ListPaths(files) = TreeFilePaths(treeLines) =>
       [i \in 1..Len(files) |-> files[i].relativePath] = TreeFileOrder(treeLines)

\* The sections do follow the file list.
SectionsFollowFileList ==
  Assembled =>
    /\ Len(sections) = Len(files)
    /\ \A i \in 1..Len(files) : sections[i].relativePath = files[i].relativePath

\* (C19) The three counts are the numbers of entries of each type in the
\* whole file list, they are there before the first section is, they add up
\* to the length of the file list, and what decoding gives does not change
\* them.
TypeCount(t) == Len(SelectSeq(files, LAMBDA f : f.type = t))

C19_CountsByClassification ==
  /\ pc \in {"start", "fatal", "constructed", "collected", "structured"} => stats = <<>>
  /\ pc = "counted" => sections = <<>>
  /\ pc \in {"counted", "generated", "written", "failed"} =>
       /\ stats = [textCount |-> TypeCount("text"), imageCount |-> TypeCount("image"),
                   binaryCount |-> TypeCount("binary")]
       /\ stats.textCount + stats.imageCount + stats.binaryCount = Len(files)
       /\ found = stats

C19_Witness ==
  /\ Assembled
  /\ stats.textCount = 2 /\ stats.imageCount = 1 /\ stats.binaryCount = 1
  /\ \E i \in 1..Len(files) : files[i].type = "text" /\ sections[i].kind = "notice"
  /\ \E i \in 1..Len(files) : files[i].type = "text" /\ sections[i].kind = "pre"

\* The rules of the list that match a path, and what the last of them says.
MatchingRules(rules, p) ==
  {k \in 1..Len(rules) : patternMatches(rules[k].pat, Basename(p))}

LastMatch(rules, p) ==
  LET M == MatchingRules(rules, p) IN
  IF M = {} THEN FALSE
  ELSE ~rules[CHOOSE k \in M : \A j \in M : j <= k].neg

RuleList == <<R_git>> \o gitignore.lines \o extraIgnores

Constructed == pc \notin {"start", "fatal"}

\* (C20, as claimed) The rule list is .git, the lines of .gitignore, the
\* extra patterns, from construction on, and the verdict on a path is what
\* the last rule that matches it says, 'not ignored' without a match.
C20_LastMatchDecides ==
  /\ Constructed => ig = RuleList
  /\ pc = "constructed" \/ ScanDone =>
       \A p \in Paths : ignores(ig, p) = LastMatch(ig, p)

\* (C20, amended) ... the verdict on a path none of whose parent directories
\* is ignored; a path below an ignored directory is ignored.
Below(p) == {SubSeq(p, 1, k) : k \in 1..(Len(p) - 1)}

C20_LastMatchDecidesBelowKeptDirectories ==
  /\ Constructed => ig = RuleList
  /\ pc = "constructed" \/ ScanDone =>
       \A p \in Paths :
         IF \E q \in Below(p) : LastMatch(ig, q)
         THEN ignores(ig, p)
         ELSE ignores(ig, p) = LastMatch(ig, p)

C20_Witness ==
  /\ ScanDone
  /\ gitignore.lines = <<R_sub, R_notlog>>
  /\ extraIgnores = <<R_log>>
  /\ fs[P_b] = "text"
  /\ LastMatch(<<R_git>> \o gitignore.lines, P_b) = FALSE
  /\ ignores(ig, P_b)
  /\ P_b \notin ListPaths(files)

\* ------------------------------------------------ ignored entries, the tree
\* The tree f with entry p replaced: it becomes an entry of kind k, and what
\* was below it is gone unless it stays a directory.
Replace(f, p, k) ==
  [q \in DOMAIN f |->
     IF q = p THEN k
     ELSE IF q # p /\ IsPrefix(p, q) /\ k \notin DirKinds THEN "absent"
     ELSE f[q]]

EntryKinds == {"absent", "text", "bin", "dir", "nolist", "nostat", "noprobe"}

\* The trees that differ from fs in one ignored entry of a directory that
\* the walk lists: in its presence, its kind or its stat-ability.
IgnoredVariants ==
  { Replace(fs, p, k) :
      p \in {q \in Paths : /\ q # P_gitignore
                           /\ fs[Parent(q)] = "dir"
                           /\ ignores(ig, q)},
      k \in EntryKinds }

\* (C21) The tree lines do not depend on ignored entries: a tree that
\* differs from the one on disk in an ignored entry only gives the same
\* lines, with the same rules and the same recursion.
C21_TreeIgnoresIgnoredEntries ==
  ScanDone =>
    \A f \in IgnoredVariants :
      getDirectoryStructure([Collector EXCEPT !.fs = f]).lines = treeLines

\* What remains of C21: when the ignored entry can be stat-ed in both trees,
\* the lines are the same but for connectors and prefix segments (C6).
Skeleton(lines) ==
  [i \in 1..Len(lines) |->
     [kind |-> lines[i].kind, name |-> lines[i].name, isDir |-> lines[i].isDir,
      depth |-> Len(lines[i].prefix)]]

StatableVariants ==
  { Replace(fs, p, k) :
      p \in {q \in Paths : /\ q # P_gitignore
                           /\ fs[Parent(q)] = "dir"
                           /\ fs[q] # "nostat"
                           /\ ignores(ig, q)},
      k \in EntryKinds \ {"nostat"} }

TreeButForStatAndConnectors ==
  ScanDone =>
    \A f \in StatableVariants :
      Skeleton(getDirectoryStructure([Collector EXCEPT !.fs = f]).lines)
        = Skeleton(treeLines)

\* ------------------------------------------------------ temporary html
Settled == pc \in {"resolved", "rejected"}

\* (C22) When generatePDF settles, fulfilled or rejected, temp_snapshot.html
\* is removed (unless its deletion itself failed) and the browser is not
\* left open; a failed deletion leaves generatePDF fulfilled.
C22_TempFileRemovedWhenSettled ==
  /\ Settled =>
       /\ tempHtml => cleanup = "failed"
       /\ browser # "open"
  /\ cleanup = "failed" => pc = "resolved"

\* What remains of C22: a fulfilled generatePDF has closed the browser and
\* removed the file unless the deletion failed, which does not reject it.
CleanWhenFulfilled ==
  /\ pc = "resolved" =>
       /\ browser = "closed"
       /\ tempHtml <=> cleanup = "failed"
  /\ cleanup = "failed" => pc = "resolved"

\* A rejection after the file is written always leaves it behind.
LeftBehindWhenRejected == pc = "rejected" => tempHtml /\ cleanup = "none"

UnlinkFailureWitness == pc = "resolved" /\ cleanup = "failed" /\ tempHtml

\* ------------------------------------------------------------ attribution
\* C1, C4 and C7 fail through one defect: the try/catch of both walks is per
\* directory, so an entry whose statSync or isBinaryFileSync throws ends the
\* walk of its whole directory (C8).  With no such entry on disk each of them
\* holds, unlistable directories included; C6 holds when nothing is ignored.
NoEntryFault == \A p \in DOMAIN fs : fs[p] \notin {"nostat", "noprobe"}

NothingIgnored == \A p \in Paths : Exists(p) => ~ignores(ig, p)

WithoutEntryFaults ==
  NoEntryFault =>
    /\ C1_FileListEqualsTreeLeaves
    /\ C4_RecursionPolicy
    /\ C7_ListingFailureIsLocal
    /\ C8_NoSilentOmission

WithoutIgnoredEntries == NothingIgnored => C6_LastChildConnector

====
